---- MODULE Spec2Model ----
(***************************************************************************)
(* Portal Synthetica backend (src/main.py): the product catalog (in-memory *)
(* list, identifier counter, JSON file), the Buddy assistant request       *)
(* handler and its knowledge-base search.                                  *)
(***************************************************************************)
EXTENDS Integers, Sequences, FiniteSets, TLC

(***************************************************************************)
(* Bounds of the model.                                                    *)
(***************************************************************************)
\* Largest identifier the counter may hand out (create and seeding stop there).
MaxId == 6
\* Largest length of products_db for which create is still issued.
MaxLen == 3
\* Number of save_products calls that the environment lets fail in one behaviour.
MaxFailures == 1

(***************************************************************************)
(* Catalog state.                                                          *)
(***************************************************************************)
VARIABLES
    products_db,         \* main.py:87   the in-memory list of product dicts
    product_id_counter,  \* main.py:87   the next identifier
    file,                \* main.py:57   products_data.json on disk
    last,                \* the last request served: operation, id handed out (create), HTTP status, save called
    latest,              \* history: id -> fields last given to create/update in this process (or Nil)
    max_assigned,        \* history: largest id present at startup or assigned since, in this process
    failures             \* number of failed save_products calls so far

catalogVars == <<products_db, product_id_counter, file, last, latest, max_assigned, failures>>

Nil == [title |-> "", price |-> -1]

\* Request bodies of POST/PUT /api/products (class Product): the fields a client sends.
Payloads == {[title |-> "X", price |-> 10], [title |-> "Y", price |-> 20]}

\* startup_event's example_products (price in cents).
example_products ==
    << [title |-> "NeuroSync v3",    price |-> 2999990],
       [title |-> "HoloBuddy Pro",   price |-> 2299990],
       [title |-> "ThermoFit Elite", price |-> 1299990] >>

\* Identifiers a client may ask for: every one that can exist, and one that cannot.
Ids == 1 .. (MaxId + 1)

\* product_dict = product.dict(); product_dict["id"] = id
WithId(product, id) == [id |-> id, title |-> product.title, price |-> product.price]

Fields(stored) == [title |-> stored.title, price |-> stored.price]

(***************************************************************************)
(* The durable file: absent, or the chunks json.dump has written to it.    *)
(* json.dump writes the document piece by piece through f.write, so a      *)
(* failure part-way leaves a prefix of the document.                       *)
(***************************************************************************)
AbsentFile == [exists |-> FALSE, chunks |-> <<>>]

ProductChunks(products) == [i \in 1 .. Len(products) |-> <<"product", products[i]>>]

\* json.dump({"products": products, "counter": counter}, f, ...)
Serialize(products, counter) ==
    <<  <<"{">>  >> \o ProductChunks(products) \o << <<"counter", counter>>, <<"}">> >>

\* A save's outcome is the number of chunks that reach the file: -1 when open()
\* itself raises, Len(document) when the whole document is written.
SaveOutcomes(products, counter) == -1 .. Len(Serialize(products, counter))

SaveFailed(products, counter, outcome) == outcome < Len(Serialize(products, counter))

\* save_products: open(DATA_FILE, "w") truncates, json.dump writes, any exception is printed.
SaveProducts(products, counter, old, outcome) ==
    IF outcome < 0
    THEN old
    ELSE [exists |-> TRUE, chunks |-> SubSeq(Serialize(products, counter), 1, outcome)]

\* The file save_products leaves when the whole document is written.
Persisted(products, counter) == [exists |-> TRUE, chunks |-> Serialize(products, counter)]

\* json.load: the text parses only when the whole document is there.
WellFormed(chunks) ==
    /\ Len(chunks) >= 3
    /\ chunks[1][1] = "{"
    /\ chunks[Len(chunks)][1] = "}"
    /\ chunks[Len(chunks) - 1][1] = "counter"
    /\ \A i \in 2 .. (Len(chunks) - 2) : chunks[i][1] = "product"

\* Mutant of LoadProducts: the counter is read under a key the file does not hold,
\* so data.get(..., 1) always answers its default.
LoadProductsDefaultCounter(f) ==
    IF f.exists /\ WellFormed(f.chunks)
    THEN [products |-> [i \in 1 .. (Len(f.chunks) - 3) |-> f.chunks[i + 1][2]],
          counter  |-> 1]
    ELSE [products |-> <<>>, counter |-> 1]

\* load_products: (data["products"], data["counter"]) or ([], 1) when the file is
\* absent or does not parse.
LoadProducts(f) ==
    IF f.exists /\ WellFormed(f.chunks)
    THEN [products |-> [i \in 1 .. (Len(f.chunks) - 3) |-> f.chunks[i + 1][2]],
          counter  |-> f.chunks[Len(f.chunks) - 1][2]]
    ELSE [products |-> <<>>, counter |-> 1]

(***************************************************************************)
(* Linear scans of the handlers.                                           *)
(***************************************************************************)
\* for i, p in enumerate(products_db): if p["id"] == product_id: ...   (0 when no entry matches)
FindIndex(products, product_id) ==
    IF \E i \in 1 .. Len(products) : products[i].id = product_id
    THEN CHOOSE i \in 1 .. Len(products) :
            /\ products[i].id = product_id
            /\ \A j \in 1 .. (i - 1) : products[j].id # product_id
    ELSE 0

\* products_db.pop(i)
Pop(products, i) == SubSeq(products, 1, i - 1) \o SubSeq(products, i + 1, Len(products))

\* get_product: the entry found, or 404
GetProductResult(products, product_id) ==
    LET i == FindIndex(products, product_id) IN
    IF i = 0 THEN [status |-> 404, body |-> WithId(Nil, 0)]
    ELSE [status |-> 200, body |-> products[i]]

\* product_dict["id"] = product_id_counter
AssignedId(counter) == counter

\* Mutant of IncrementCounter: the increment is forgotten.
IncrementCounterForgotten(counter) == counter

\* product_id_counter += 1
IncrementCounter(counter) == counter + 1

\* Mutant of ReplaceAt: the entry is removed and the new dict appended.
ReplaceAtByAppend(products, i, product, product_id) ==
    Append(Pop(products, i), WithId(product, product_id))

\* products_db[i] = product_dict, with product_dict["id"] = product_id
ReplaceAt(products, i, product, product_id) ==
    [products EXCEPT ![i] = WithId(product, product_id)]

(***************************************************************************)
(* Process start: load_products at import, then startup_event.             *)
(***************************************************************************)
\* Mutant of Seeded: the loop numbers the examples but the global counter keeps its value.
SeededCounterKept(counter) ==
    [products |-> [i \in 1 .. Len(example_products) |->
                      WithId(example_products[i], counter + i - 1)],
     counter  |-> counter]

\* for product in example_products: id = counter; append; counter += 1
Seeded(counter) ==
    [products |-> [i \in 1 .. Len(example_products) |->
                      WithId(example_products[i], counter + i - 1)],
     counter  |-> counter + Len(example_products)]

\* startup_event: seeds only when products_db is empty
NeedsSeeding(products) == products = <<>>

\* The memory state after load_products and startup_event (before its save).
Booted(f) ==
    LET loaded == LoadProducts(f) IN
    IF NeedsSeeding(loaded.products) THEN Seeded(loaded.counter) ELSE loaded

LatestOf(products) ==
    [id \in Ids |->
        IF \E i \in 1 .. Len(products) : products[i].id = id
        THEN Fields(products[FindIndex(products, id)])
        ELSE Nil]

IdsOf(products) == {products[i].id : i \in 1 .. Len(products)}

Max(S) == IF S = {} THEN 0 ELSE CHOOSE m \in S : \A x \in S : x <= m

\* One process start from the file f; outcome is that of startup_event's save.
Boot(f, outcome, failed) ==
    LET loaded == LoadProducts(f)
        mem    == Booted(f)
        seeds  == NeedsSeeding(loaded.products)
    IN  /\ seeds => mem.counter <= MaxId + 1
        /\ seeds => outcome \in SaveOutcomes(mem.products, mem.counter)
        /\ ~seeds => outcome = 0
        /\ (seeds /\ SaveFailed(mem.products, mem.counter, outcome)) => failed < MaxFailures
        /\ products_db' = mem.products
        /\ product_id_counter' = mem.counter
        /\ file' = IF seeds THEN SaveProducts(mem.products, mem.counter, f, outcome) ELSE f
        /\ failures' = IF seeds /\ SaveFailed(mem.products, mem.counter, outcome)
                       THEN failed + 1 ELSE failed
        /\ last' = [op |-> "start", id |-> 0, status |-> 200, saved |-> seeds]
        /\ latest' = LatestOf(mem.products)
        /\ max_assigned' = Max(IdsOf(mem.products))

\* The first start of the process: no products_data.json yet.
Init ==
    /\ products_db = Seeded(1).products
    /\ product_id_counter = Seeded(1).counter
    /\ \E outcome \in SaveOutcomes(Seeded(1).products, Seeded(1).counter) :
          /\ SaveFailed(Seeded(1).products, Seeded(1).counter, outcome) => MaxFailures > 0
          /\ file = SaveProducts(Seeded(1).products, Seeded(1).counter, AbsentFile, outcome)
          /\ failures = IF SaveFailed(Seeded(1).products, Seeded(1).counter, outcome) THEN 1 ELSE 0
    /\ last = [op |-> "start", id |-> 0, status |-> 200, saved |-> TRUE]
    /\ latest = LatestOf(products_db)
    /\ max_assigned = Max(IdsOf(products_db))

\* Every number of chunks a save can get to write.
AnyOutcome == -1 .. (MaxLen + 3)

\* The process is stopped and started again on the file as it is.
Restart == \E outcome \in AnyOutcome : Boot(file, outcome, failures)

(***************************************************************************)
(* The CRUD handlers.                                                      *)
(***************************************************************************)
\* GET /api/products/{product_id}
GetProduct(product_id) ==
    /\ last' = [op |-> "get", id |-> 0,
                status |-> GetProductResult(products_db, product_id).status, saved |-> FALSE]
    /\ UNCHANGED <<products_db, product_id_counter, file, latest, max_assigned, failures>>

\* POST /api/products
CreateProduct(product, outcome) ==
    LET id       == AssignedId(product_id_counter)
        counter  == IncrementCounter(product_id_counter)
        products == Append(products_db, WithId(product, id))
    IN  /\ product_id_counter <= MaxId
        /\ Len(products_db) < MaxLen
        /\ outcome \in SaveOutcomes(products, counter)
        /\ SaveFailed(products, counter, outcome) => failures < MaxFailures
        /\ products_db' = products
        /\ product_id_counter' = counter
        /\ file' = SaveProducts(products, counter, file, outcome)
        /\ failures' = IF SaveFailed(products, counter, outcome) THEN failures + 1 ELSE failures
        /\ last' = [op |-> "create", id |-> id, status |-> 200, saved |-> TRUE]
        /\ latest' = [latest EXCEPT ![id] = product]
        /\ max_assigned' = Max({max_assigned, id})

\* PUT /api/products/{product_id}
UpdateProduct(product_id, product, outcome) ==
    LET i == FindIndex(products_db, product_id) IN
    IF i # 0
    THEN LET products == ReplaceAt(products_db, i, product, product_id) IN
         /\ outcome \in SaveOutcomes(products, product_id_counter)
         /\ SaveFailed(products, product_id_counter, outcome) => failures < MaxFailures
         /\ products_db' = products
         /\ file' = SaveProducts(products, product_id_counter, file, outcome)
         /\ failures' = IF SaveFailed(products, product_id_counter, outcome)
                        THEN failures + 1 ELSE failures
         /\ last' = [op |-> "update", id |-> 0, status |-> 200, saved |-> TRUE]
         /\ latest' = [latest EXCEPT ![product_id] = product]
         /\ UNCHANGED <<product_id_counter, max_assigned>>
    ELSE /\ outcome = 0
         /\ last' = [op |-> "update", id |-> 0, status |-> 404, saved |-> FALSE]
         /\ UNCHANGED <<products_db, product_id_counter, file, latest, max_assigned, failures>>

\* Mutant of DeleteProduct: save_products is called after the loop, found or not.
DeleteProductAlwaysSaves(product_id, outcome) ==
    LET i        == FindIndex(products_db, product_id)
        products == IF i # 0 THEN Pop(products_db, i) ELSE products_db
    IN  /\ outcome \in SaveOutcomes(products, product_id_counter)
        /\ SaveFailed(products, product_id_counter, outcome) => failures < MaxFailures
        /\ products_db' = products
        /\ file' = SaveProducts(products, product_id_counter, file, outcome)
        /\ failures' = IF SaveFailed(products, product_id_counter, outcome)
                       THEN failures + 1 ELSE failures
        /\ last' = [op |-> "delete", id |-> 0, status |-> IF i # 0 THEN 200 ELSE 404,
                    saved |-> TRUE]
        /\ latest' = [latest EXCEPT ![product_id] = Nil]
        /\ UNCHANGED <<product_id_counter, max_assigned>>

\* DELETE /api/products/{product_id}
DeleteProduct(product_id, outcome) ==
    LET i == FindIndex(products_db, product_id) IN
    IF i # 0
    THEN LET products == Pop(products_db, i) IN
         /\ outcome \in SaveOutcomes(products, product_id_counter)
         /\ SaveFailed(products, product_id_counter, outcome) => failures < MaxFailures
         /\ products_db' = products
         /\ file' = SaveProducts(products, product_id_counter, file, outcome)
         /\ failures' = IF SaveFailed(products, product_id_counter, outcome)
                        THEN failures + 1 ELSE failures
         /\ last' = [op |-> "delete", id |-> 0, status |-> 200, saved |-> TRUE]
         /\ latest' = [latest EXCEPT ![product_id] = Nil]
         /\ UNCHANGED <<product_id_counter, max_assigned>>
    ELSE /\ outcome = 0
         /\ last' = [op |-> "delete", id |-> 0, status |-> 404, saved |-> FALSE]
         /\ UNCHANGED <<products_db, product_id_counter, file, latest, max_assigned, failures>>

(***************************************************************************)
(* The knowledge-base search of the Buddy handler.  Text is a sequence of  *)
(* characters; an accented letter is written with its accent after it.     *)
(***************************************************************************)
VARIABLES
    busca                \* one call of buscar_conteudo_relevante: its argument and result

\* base_conhecimento[0]
Doc1 ==
    <<
        "A", " ", "i", "n", "t", "e", "l", "i", "g", "e^", "n", "c", "i", "a", " ", "a", "r",
        "t", "i", "f", "i", "c", "i", "a", "l", " ", "t", "e", "m", " ", "r", "e", "v", "o",
        "l", "u", "c", "i", "o", "n", "a", "d", "o", " ", "o", " ", "m", "u", "n", "d", "o",
        " ", "d", "a", " ", "a", "r", "t", "e", " ", "g", "e", "n", "e", "r", "a", "t", "i",
        "v", "a", ",", " ", "p", "e", "r", "m", "i", "t", "i", "n", "d", "o", " ", "a", " ",
        "c", "r", "i", "a", "c,", "a~", "o", " ", "d", "e", " ", "o", "b", "r", "a", "s", " ",
        "u'", "n", "i", "c", "a", "s", " ", "p", "o", "r", " ", "m", "e", "i", "o", " ", "d",
        "e", " ", "r", "e", "d", "e", "s", " ", "n", "e", "u", "r", "a", "i", "s", "." >>

\* base_conhecimento[1]
Doc2 ==
    <<
        "R", "e", "a", "l", "i", "d", "a", "d", "e", " ", "a", "u", "m", "e", "n", "t", "a",
        "d", "a", " ", "e", " ", "I", "A", " ", "t", "e^", "m", " ", "s", "i", "d", "o", " ",
        "c", "o", "m", "b", "i", "n", "a", "d", "a", "s", " ", "e", "m", " ", "e", "x", "p",
        "e", "r", "i", "e^", "n", "c", "i", "a", "s", " ", "c", "u", "l", "t", "u", "r", "a",
        "i", "s", " ", "i", "m", "e", "r", "s", "i", "v", "a", "s", ",", " ", "c", "o", "m",
        "o", " ", "e", "x", "p", "o", "s", "i", "c,", "o~", "e", "s", " ", "i", "n", "t", "e",
        "r", "a", "t", "i", "v", "a", "s", " ", "e", "m", " ", "m", "u", "s", "e", "u", "s",
        "." >>

\* base_conhecimento[2]
Doc3 ==
    <<
        "A", "v", "a", "n", "c,", "o", "s", " ", "t", "e", "c", "n", "o", "l", "o'", "g", "i",
        "c", "o", "s", " ", "c", "o", "m", "o", " ", "c", "o", "m", "p", "u", "t", "a", "c,",
        "a~", "o", " ", "q", "u", "a^", "n", "t", "i", "c", "a", " ", "e", " ", "I", "A", " ",
        "s", "i", "m", "b", "o'", "l", "i", "c", "a", " ", "e", "s", "t", "a~", "o", " ", "m",
        "o", "l", "d", "a", "n", "d", "o", " ", "o", " ", "f", "u", "t", "u", "r", "o", " ",
        "d", "a", " ", "c", "r", "i", "a", "t", "i", "v", "i", "d", "a", "d", "e", " ", "a",
        "r", "t", "i", "f", "i", "c", "i", "a", "l", "." >>

\* base_conhecimento[3]
Doc4 ==
    <<
        "I", "A", " ", "c", "r", "i", "a", "t", "i", "v", "a", " ", "p", "o", "d", "e", " ",
        "c", "o", "l", "a", "b", "o", "r", "a", "r", " ", "c", "o", "m", " ", "a", "r", "t",
        "i", "s", "t", "a", "s", ",", " ", "o", "f", "e", "r", "e", "c", "e", "n", "d", "o",
        " ", "s", "u", "g", "e", "s", "t", "o~", "e", "s", " ", "d", "e", " ", "c", "o", "m",
        "p", "o", "s", "i", "c,", "a~", "o", ",", " ", "p", "a", "l", "e", "t", "a", "s", " ",
        "d", "e", " ", "c", "o", "r", " ", "o", "u", " ", "a", "t", "e'", " ", "m", "e", "s",
        "m", "o", " ", "c", "r", "i", "a", "n", "d", "o", " ", "m", "u'", "s", "i", "c", "a",
        " ", "o", "r", "i", "g", "i", "n", "a", "l", "." >>

\* "Nenhuma informacao relevante encontrada."
NenhumaInformacao ==
    <<
        "N", "e", "n", "h", "u", "m", "a", " ", "i", "n", "f", "o", "r", "m", "a", "c,", "a~",
        "o", " ", "r", "e", "l", "e", "v", "a", "n", "t", "e", " ", "e", "n", "c", "o", "n",
        "t", "r", "a", "d", "a", "." >>

\* main.py:60-65
base_conhecimento == <<Doc1, Doc2, Doc3, Doc4>>

UpperLetters ==
    << "A", "B", "C", "D", "E", "F", "G", "H", "I", "J", "K", "L", "M",
       "N", "O", "P", "Q", "R", "S", "T", "U", "V", "W", "X", "Y", "Z" >>

LowerLetters ==
    << "a", "b", "c", "d", "e", "f", "g", "h", "i", "j", "k", "l", "m",
       "n", "o", "p", "q", "r", "s", "t", "u", "v", "w", "x", "y", "z" >>

\* str.lower, one character
LowerChar(c) ==
    IF \E k \in 1 .. Len(UpperLetters) : UpperLetters[k] = c
    THEN LowerLetters[CHOOSE k \in 1 .. Len(UpperLetters) : UpperLetters[k] = c]
    ELSE c

\* str.lower
Lower(text) == [i \in 1 .. Len(text) |-> LowerChar(text[i])]

IsSpace(c) == c \in {" ", "\n", "\t"}

\* Where the words of a text start: a non-whitespace character at the start of the
\* text or after whitespace.
WordStarts(text) ==
    {i \in 1 .. Len(text) : ~IsSpace(text[i]) /\ (i = 1 \/ IsSpace(text[i - 1]))}

\* The last character of the word that starts at i.
WordEnd(text, i) ==
    CHOOSE j \in i .. Len(text) :
        /\ \A k \in i .. j : ~IsSpace(text[k])
        /\ (j = Len(text) \/ IsSpace(text[j + 1]))

\* str.split(): the maximal runs of non-whitespace characters, in order
Split(text) ==
    LET starts == WordStarts(text) IN
    [n \in 1 .. Cardinality(starts) |->
        LET i == CHOOSE i \in starts : Cardinality({s \in starts : s < i}) = n - 1
        IN  SubSeq(text, i, WordEnd(text, i))]

\* the operator `in` of two strings: needle occurs in hay
Contains(hay, needle) ==
    \E i \in 0 .. (Len(hay) - Len(needle)) : SubSeq(hay, i + 1, i + Len(needle)) = needle

\* Mutant of Matches: all() where the code has any().
MatchesAll(doc, preferencia_usuario) ==
    LET palavras == Split(preferencia_usuario) IN
    \A k \in 1 .. Len(palavras) : Contains(Lower(doc), Lower(palavras[k]))

\* any(palavra.lower() in doc.lower() for palavra in preferencia_usuario.split())
Matches(doc, preferencia_usuario) ==
    LET palavras == Split(preferencia_usuario) IN
    \E k \in 1 .. Len(palavras) : Contains(Lower(doc), Lower(palavras[k]))

\* sep.join(parts)
RECURSIVE Join(_, _)
Join(parts, sep) ==
    IF parts = <<>> THEN <<>>
    ELSE IF Len(parts) = 1 THEN parts[1]
    ELSE parts[1] \o sep \o Join(Tail(parts), sep)

\* buscar_conteudo_relevante
buscar_conteudo_relevante(preferencia_usuario) ==
    LET resultados == SelectSeq(base_conhecimento, LAMBDA doc : Matches(doc, preferencia_usuario))
    IN  IF resultados # <<>> THEN Join(resultados, <<"\n">>) ELSE NenhumaInformacao

\* Bounds of the messages searched for.
MaxMsgLen == 4

MsgChars == {"a", "r", "t", "e", "I", " "}

RECURSIVE TextsUpTo(_)
TextsUpTo(n) ==
    IF n = 0 THEN {<<>>}
    ELSE LET shorter == TextsUpTo(n - 1) IN
         shorter \cup {Append(t, c) : t \in {u \in shorter : Len(u) = n - 1}, c \in MsgChars}

\* The user messages tried: every text over MsgChars up to MaxMsgLen, and "Oi".
Messages == TextsUpTo(MaxMsgLen) \cup {<<"O", "i">>}

BuscaIdle == busca = [input |-> <<>>, done |-> FALSE, result |-> <<>>]

InitBusca == \E m \in Messages : busca = [input |-> m, done |-> FALSE, result |-> <<>>]

\* context = buscar_conteudo_relevante(user_message)
Buscar ==
    /\ ~busca.done
    /\ busca' = [busca EXCEPT !.done = TRUE,
                              !.result = buscar_conteudo_relevante(busca.input)]


(***************************************************************************)
(* POST /api/buddy: process_buddy_request, one request from arrival to     *)
(* answer.  The completion provider's answers and the weather service's    *)
(* answer are inputs of the handler.                                       *)
(***************************************************************************)
VARIABLES
    buddy_request,       \* the BuddyRequest served last
    buddy_first,         \* the provider's answer to the first submission, when one was made
    buddy_calls,         \* the outbound calls the handler made, in order
    buddy_messages,      \* the handler's local list `messages` when it finished
    buddy_response       \* the HTTP answer: status, response text, audio_url

buddyVars == <<buddy_request, buddy_first, buddy_calls, buddy_messages, buddy_response>>

\* Python's None and a str
None == [none |-> TRUE, text |-> <<>>]
Str(text) == [none |-> FALSE, text |-> text]

\* BuddyRequest bodies tried
BuddyMessages == {<<>>, <<" ">>, <<"O", "i">>, <<"a", "r", "t", "e">>}
BuddyContexts == {<<>>, <<"c", "t", "x">>}
BuddyHistories == {<<>>, <<[role |-> "user", content |-> <<"h", "i">>, tool_calls |-> FALSE]>>}
BuddyRequests ==
    [message : BuddyMessages, context : BuddyContexts,
     history : BuddyHistories, voice_enabled : BOOLEAN]

\* Answers of client.chat.completions.create: an exception, a message with text, or
\* a message with tool_calls whose arguments do or do not parse to coordinates.
NoArgs == [ok |-> FALSE, latitude |-> 0, longitude |-> 0]
Coordinates == {[ok |-> TRUE, latitude |-> 10, longitude |-> 20],
                [ok |-> TRUE, latitude |-> -23, longitude |-> -46]}
AnswerText == <<"H", "i", " ", "B">>
ProviderError == [kind |-> "error", content |-> None, args |-> NoArgs]
NoAnswer == [kind |-> "none", content |-> None, args |-> NoArgs]
TextAnswers == {[kind |-> "text", content |-> Str(AnswerText), args |-> NoArgs]}
ToolAnswers == {[kind |-> "tool", content |-> None, args |-> a] : a \in Coordinates \cup {NoArgs}}
Answers == {ProviderError} \cup TextAnswers \cup ToolAnswers

\* Answers of the weather service: a temperature, or a failure of the request.
WeatherAnswers == {[ok |-> TRUE, temperature |-> 18], [ok |-> FALSE, temperature |-> 0]}

\* get_weather: the temperature, or 25.0 when the request raises
get_weather(answer) == IF answer.ok THEN answer.temperature ELSE 25

DigitText == <<"0", "1", "2", "3", "4", "5", "6", "7", "8", "9">>

\* str(resultado), for a whole number of degrees
RECURSIVE DecimalText(_)
DecimalText(n) ==
    IF n < 0 THEN <<"-">> \o DecimalText(0 - n)
    ELSE IF n < 10 THEN <<DigitText[n + 1]>>
    ELSE DecimalText(n \div 10) \o <<DigitText[(n % 10) + 1]>>

\* text.replace(" ", "%20")
Escape(text) ==
    IF text = <<>> THEN <<>>
    ELSE Join([i \in 1 .. Len(text) |-> IF text[i] = " " THEN <<"%", "2", "0">> ELSE <<text[i]>>],
              <<>>)

SpeechPrefix == <<"/", "a", "p", "i", "/", "b", "u", "d", "d", "y", "/", "s", "p", "e", "e", "c", "h",
                  "?", "t", "e", "x", "t", "=">>

CompletionCall(messages, tools) ==
    [kind |-> "completion", messages |-> Len(messages), tools |-> tools,
     latitude |-> 0, longitude |-> 0]

WeatherCall(latitude, longitude) ==
    [kind |-> "weather", messages |-> 0, tools |-> FALSE,
     latitude |-> latitude, longitude |-> longitude]

\* messages, as built before the first submission
InitialMessages(request) ==
    LET context == IF request.context # <<>> THEN request.context
                   ELSE buscar_conteudo_relevante(request.message)
    IN  IF request.history # <<>>
        THEN request.history
        ELSE << [role |-> "system", content |-> <<"B", "u", "d", "d", "y">>, tool_calls |-> FALSE],
                [role |-> "user",
                 content |-> <<"O", "i", " ", "B", "u", "d", "d", "y", "!", " ">> \o request.message
                             \o <<"\n", "\n", "C", "o", "n", "t", "e", "x", "t", "o", ":", "\n">>
                             \o context,
                 tool_calls |-> FALSE] >>

\* Mutant of WantsTool: the tool_calls of the answer are never looked at.
WantsToolNever(answer) == FALSE

\* hasattr(response_message, 'tool_calls') and response_message.tool_calls
WantsTool(answer) == answer.kind = "tool"

\* except Exception as e: raise HTTPException(status_code=500, detail=str(e))
\* (an HTTPException raised inside the try block is an Exception too)
Caught(raised) == 500

\* What one run of the handler does and answers.
Failed(raised, first, calls, messages) ==
    [status |-> Caught(raised), response |-> None, audio_url |-> None,
     first |-> first, calls |-> calls, messages |-> messages]

Answered(final, voice_enabled, first, calls, messages) ==
    IF voice_enabled /\ final.none
    THEN Failed(0, first, calls, messages)      \* None has no replace: AttributeError
    ELSE [status |-> 200, response |-> final,
          audio_url |-> IF voice_enabled THEN Str(SpeechPrefix \o Escape(final.text)) ELSE None,
          first |-> first, calls |-> calls, messages |-> messages]

Handle(request, first, weather, second) ==
    IF request.message = <<>>
    THEN Failed(400, NoAnswer, <<>>, <<>>)
    ELSE
    LET messages == InitialMessages(request)
        call1    == CompletionCall(messages, TRUE)
    IN  IF first.kind = "error"
        THEN Failed(0, NoAnswer, <<call1>>, messages)
        ELSE IF WantsTool(first)
        THEN IF ~first.args.ok
             THEN Failed(0, first, <<call1>>, messages)      \* json.loads or args[...] raises
             ELSE LET resultado == get_weather(weather)
                      extended  == messages \o
                          << [role |-> "assistant", content |-> first.content.text, tool_calls |-> TRUE],
                             [role |-> "tool", content |-> DecimalText(resultado), tool_calls |-> FALSE] >>
                      calls     == << call1,
                                      WeatherCall(first.args.latitude, first.args.longitude),
                                      CompletionCall(extended, FALSE) >>
                  IN  IF second.kind = "error"
                      THEN Failed(0, first, calls, extended)
                      ELSE Answered(second.content, request.voice_enabled, first, calls, extended)
        ELSE Answered(first.content, request.voice_enabled, first, <<call1>>, messages)

BuddyIdle ==
    /\ buddy_request = [message |-> <<>>, context |-> <<>>, history |-> <<>>, voice_enabled |-> FALSE]
    /\ buddy_first = NoAnswer
    /\ buddy_calls = <<>>
    /\ buddy_messages = <<>>
    /\ buddy_response = [status |-> 0, response |-> None, audio_url |-> None]

ProcessBuddyRequest(request, first, weather, second) ==
    LET run == Handle(request, first, weather, second) IN
    /\ buddy_response.status = 0          \* one request in a behaviour: the handler keeps no state
    /\ buddy_request' = request
    /\ buddy_first' = run.first
    /\ buddy_calls' = run.calls
    /\ buddy_messages' = run.messages
    /\ buddy_response' = [status |-> run.status, response |-> run.response,
                          audio_url |-> run.audio_url]

(***************************************************************************)
(* Concurrent POST /api/products requests.  Each request is a coroutine    *)
(* (async def create_product) on the one event loop of the process; the    *)
(* loop runs a coroutine until it returns or awaits.                       *)
(***************************************************************************)
VARIABLES
    handlers,            \* per connection: the create_product coroutine, its position and locals
    running,             \* the connection whose coroutine the event loop is running (0: none)
    responses            \* the identifiers answered so far, in order

concVars == <<handlers, running, responses>>

\* Connections that may have a request in flight at once.
MaxHandlers == 2
\* Create requests accepted in one behaviour.
MaxCreates == 3

Slots == 1 .. MaxHandlers

IdleHandler == [pc |-> "idle", product |-> Nil, id |-> 0]

\* The statements of create_product, by line, in order.
CreateStatements == <<"s161", "s162", "s163", "s165", "s168", "s170">>

NextStatement(pc) ==
    LET k == CHOOSE k \in 1 .. Len(CreateStatements) : CreateStatements[k] = pc IN
    IF k = Len(CreateStatements) THEN "idle" ELSE CreateStatements[k + 1]

\* Mutant of SuspensionPoints: an await between reading the counter and incrementing it.
SuspensionPointsAfterRead == {"s162"}

\* The statements of create_product after which the coroutine awaits: it has no await.
SuspensionPoints == {}

InFlight == {s \in Slots : handlers[s].pc # "idle"}

ConcIdle ==
    /\ handlers = [s \in Slots |-> IdleHandler]
    /\ running = 0
    /\ responses = <<>>

\* A request arrives on a free connection; its coroutine is scheduled on the loop.
Accept(s, product) ==
    /\ handlers[s].pc = "idle"
    /\ Len(responses) + Cardinality(InFlight) < MaxCreates
    /\ handlers' = [handlers EXCEPT ![s] = [pc |-> "s161", product |-> product, id |-> 0]]
    /\ UNCHANGED <<running, responses, products_db, product_id_counter, file>>

\* The event loop runs the next statement of a coroutine: the one it is running, or
\* any scheduled one when it runs none.
Step(s) ==
    LET h    == handlers[s]
        next == NextStatement(h.pc)
    IN  /\ h.pc # "idle"
        /\ running \in {0, s}
        /\ running' = IF next = "idle" \/ h.pc \in SuspensionPoints THEN 0 ELSE s
        /\ CASE h.pc = "s161" ->      \* product_dict = product.dict()
                  /\ handlers' = [handlers EXCEPT ![s].pc = next]
                  /\ UNCHANGED <<responses, products_db, product_id_counter, file>>
             [] h.pc = "s162" ->      \* product_dict["id"] = product_id_counter
                  /\ handlers' = [handlers EXCEPT ![s].pc = next,
                                                  ![s].id = AssignedId(product_id_counter)]
                  /\ UNCHANGED <<responses, products_db, product_id_counter, file>>
             [] h.pc = "s163" ->      \* product_id_counter += 1
                  /\ product_id_counter' = IncrementCounter(product_id_counter)
                  /\ handlers' = [handlers EXCEPT ![s].pc = next]
                  /\ UNCHANGED <<responses, products_db, file>>
             [] h.pc = "s165" ->      \* products_db.append(product_dict)
                  /\ products_db' = Append(products_db, WithId(h.product, h.id))
                  /\ handlers' = [handlers EXCEPT ![s].pc = next]
                  /\ UNCHANGED <<responses, product_id_counter, file>>
             [] h.pc = "s168" ->      \* save_products(products_db, product_id_counter)
                  /\ file' = Persisted(products_db, product_id_counter)
                  /\ handlers' = [handlers EXCEPT ![s].pc = next]
                  /\ UNCHANGED <<responses, products_db, product_id_counter>>
             [] h.pc = "s170" ->      \* return product_dict
                  /\ responses' = Append(responses, h.id)
                  /\ handlers' = [handlers EXCEPT ![s] = IdleHandler]
                  /\ UNCHANGED <<products_db, product_id_counter, file>>

(***************************************************************************)
(* The specifications.                                                     *)
(***************************************************************************)
vars == <<catalogVars, busca, buddyVars, concVars>>

\* The catalog: the CRUD handlers and restarts of the process.
Next ==
    \/ \E id \in Ids : GetProduct(id) /\ UNCHANGED <<busca, buddyVars, concVars>>
    \/ \E p \in Payloads, o \in AnyOutcome : CreateProduct(p, o) /\ UNCHANGED <<busca, buddyVars, concVars>>
    \/ \E id \in Ids, p \in Payloads, o \in AnyOutcome :
          UpdateProduct(id, p, o) /\ UNCHANGED <<busca, buddyVars, concVars>>
    \/ \E id \in Ids, o \in AnyOutcome : DeleteProduct(id, o) /\ UNCHANGED <<busca, buddyVars, concVars>>
    \/ Restart /\ UNCHANGED <<busca, buddyVars, concVars>>

\* The first start of the process; no Buddy request and no create in flight.
StartCatalog == Init /\ BuscaIdle /\ BuddyIdle /\ ConcIdle

Spec == StartCatalog /\ [][Next]_vars

\* The catalog state in which the other handlers are studied: the first start, saved.
CatalogIdle ==
    /\ products_db = Seeded(1).products
    /\ product_id_counter = Seeded(1).counter
    /\ file = Persisted(products_db, product_id_counter)
    /\ failures = 0
    /\ last = [op |-> "start", id |-> 0, status |-> 200, saved |-> TRUE]
    /\ latest = LatestOf(products_db)
    /\ max_assigned = Max(IdsOf(products_db))

\* buscar_conteudo_relevante applied to each message.
NextBusca == Buscar /\ UNCHANGED <<catalogVars, buddyVars, concVars>>

StartBusca == CatalogIdle /\ BuddyIdle /\ ConcIdle /\ InitBusca

SpecBusca == StartBusca /\ [][NextBusca]_vars

\* The Buddy handler serving a request.
NextBuddy ==
    \E request \in BuddyRequests, first \in Answers, weather \in WeatherAnswers,
       second \in Answers :
          ProcessBuddyRequest(request, first, weather, second)
             /\ UNCHANGED <<catalogVars, busca, concVars>>

StartBuddy == CatalogIdle /\ BuscaIdle /\ BuddyIdle /\ ConcIdle

SpecBuddy == StartBuddy /\ [][NextBuddy]_vars

\* Concurrent create requests.  The history variables of the catalog claims (last,
\* latest, max_assigned, failures) are not kept here; every save succeeds.
NextConc ==
    \/ \E s \in Slots, p \in Payloads :
          Accept(s, p) /\ UNCHANGED <<busca, buddyVars, last, latest, max_assigned, failures>>
    \/ \E s \in Slots :
          Step(s) /\ UNCHANGED <<busca, buddyVars, last, latest, max_assigned, failures>>

StartConc == CatalogIdle /\ BuscaIdle /\ BuddyIdle /\ ConcIdle

\* The event loop keeps running the coroutines that are ready.
SpecConc ==
    /\ StartConc
    /\ [][NextConc]_vars
    /\ WF_vars(\E s \in Slots : Step(s) /\ UNCHANGED <<busca, buddyVars, last, latest, max_assigned, failures>>)


(***************************************************************************)
(* Catalog claims.                                                         *)
(***************************************************************************)

\* C1: every identifier returned by create_product is strictly greater than every
\* identifier assigned earlier in the process (present at startup, seeded, or handed
\* out by an earlier create), so a deleted identifier is never handed out again.
C1_FreshIdentifier ==
    [][(last'.op = "create" /\ Len(products_db') = Len(products_db) + 1)
          => (last'.id > max_assigned /\ products_db'[Len(products_db')].id = last'.id)]_catalogVars

\* A create has answered after an earlier create and a delete: an identifier below
\* the returned one, once assigned, is no longer in the list.
C1_Witness ==
    /\ last.op = "create"
    /\ last.id > Len(example_products) + 1
    /\ \E i \in 1 .. (last.id - 1) : i \notin IdsOf(products_db)

\* C2: the counter is strictly greater than every identifier in products_db, and
\* the identifiers in products_db are pairwise distinct.
C2_CounterAboveIds ==
    /\ \A i \in 1 .. Len(products_db) : products_db[i].id < product_id_counter
    /\ \A i, j \in 1 .. Len(products_db) : i # j => products_db[i].id # products_db[j].id

\* The process has been started again on a saved file written after a create and a
\* delete: the counter is past the examples and an identifier below it is gone.
C2_Witness ==
    /\ last.op = "start"
    /\ products_db # <<>>
    /\ product_id_counter > Len(example_products) + 1
    /\ \E id \in 1 .. (product_id_counter - 1) : id \notin IdsOf(products_db)

\* C3: get_product answers the fields last given to create/update for the id, with
\* the id, and 404 for an id never assigned or deleted; a successful update keeps
\* the counter, the length, every entry's position and identifier, and changes at
\* most the one entry.
C3_GetReturnsLatest ==
    /\ [](\A id \in Ids :
            GetProductResult(products_db, id) =
                IF latest[id] = Nil
                THEN [status |-> 404, body |-> WithId(Nil, 0)]
                ELSE [status |-> 200, body |-> WithId(latest[id], id)])
    /\ [][(last'.op = "update" /\ last'.status = 200)
            => /\ product_id_counter' = product_id_counter
               /\ Len(products_db') = Len(products_db)
               /\ \A i \in 1 .. Len(products_db) : products_db'[i].id = products_db[i].id
               /\ Cardinality({i \in 1 .. Len(products_db) :
                                  products_db'[i] # products_db[i]}) <= 1]_catalogVars

\* An update has succeeded on an entry that is not the last of the list, while an
\* identifier assigned earlier has been deleted.
C3_Witness ==
    /\ last.op = "update" /\ last.status = 200
    /\ Len(products_db) >= 2
    /\ Fields(products_db[1]) \in Payloads
    /\ \E id \in 1 .. max_assigned : latest[id] = Nil

\* C4: update_product or delete_product with an identifier that matches no entry
\* answers 404 and leaves the list, the counter and the file as they were, without
\* calling save_products.
C4_NotFoundChangesNothing ==
    [][(last'.op \in {"update", "delete"})
          => \A id \in Ids :
                (FindIndex(products_db, id) = 0
                   /\ \E p \in Payloads, o \in AnyOutcome :
                         UpdateProduct(id, p, o) \/ DeleteProduct(id, o))
                => /\ last'.status = 404
                   /\ ~last'.saved
                   /\ UNCHANGED <<products_db, product_id_counter, file>>]_catalogVars

\* A delete of an absent identifier has been answered 404 after the list had changed.
C4_Witness ==
    /\ last.op = "delete" /\ last.status = 404
    /\ Len(products_db) < Len(example_products)

\* C5 as stated: from any state reached with successful writes only and persisted,
\* a restart yields the same list and the same counter.
C5_RestartIdentity ==
    [][(last'.op = "start" /\ failures' = 0
            /\ file = Persisted(products_db, product_id_counter))
          => (products_db' = products_db /\ product_id_counter' = product_id_counter)]_catalogVars

\* C5 as amended: when the file holds the complete current state and the list is
\* not empty, a restart yields the same list and the same counter; when the list is
\* empty, startup_event seeds the examples numbered from the saved counter on.
C5_RestartIdentityNonEmpty ==
    [][(last'.op = "start" /\ file = Persisted(products_db, product_id_counter))
          => IF products_db # <<>>
             THEN products_db' = products_db /\ product_id_counter' = product_id_counter
             ELSE /\ Len(products_db') = Len(example_products)
                  /\ \A i \in 1 .. Len(example_products) :
                        products_db'[i] = WithId(example_products[i], product_id_counter + i - 1)
                  /\ product_id_counter' = product_id_counter + Len(example_products)]_catalogVars

\* A restart has loaded a saved list that holds a client's product.
C5_Witness ==
    /\ last.op = "start"
    /\ file = Persisted(products_db, product_id_counter)
    /\ \E i \in 1 .. Len(products_db) : Fields(products_db[i]) \in Payloads
    /\ product_id_counter > Len(example_products) + 1

\* C6: after any call of save_products the file holds the complete new state or
\* the complete prior state (it is unchanged), never a part of the document.
C6_SaveIsAtomic ==
    [][file' = file \/ file' = Persisted(products_db', product_id_counter')]_catalogVars

(***************************************************************************)
(* Assistant claims.                                                       *)
(***************************************************************************)
WeatherCalls == SelectSeq(buddy_calls, LAMBDA c : c.kind = "weather")
CompletionCalls == SelectSeq(buddy_calls, LAMBDA c : c.kind = "completion")
Served == buddy_response.status # 0

\* C7: a request whose message is empty is answered 400, and no call to the
\* completion provider or the weather service is made for it.
C7_EmptyMessageIs400 ==
    (Served /\ buddy_request.message = <<>>)
        => (buddy_response.status = 400 /\ buddy_calls = <<>>)

\* C8 as stated: when the first answer requests the tool, get_weather is called
\* exactly once, with that answer's coordinates, a tool message with the result is
\* appended and exactly one follow-up submission is made; when the first answer
\* requests no tool, get_weather is not called and exactly one submission is made.
C8_OneToolRoundTrip ==
    /\ Len(WeatherCalls) <= 1
    /\ (Served /\ buddy_first.kind = "tool")
          => /\ Len(WeatherCalls) = 1
             /\ Len(CompletionCalls) = 2
             /\ buddy_messages[Len(buddy_messages)].role = "tool"
    /\ (Served /\ buddy_first.kind = "text")
          => (Len(WeatherCalls) = 0 /\ Len(CompletionCalls) = 1)

\* C8 as amended: the same, for a tool request whose arguments parse to a latitude
\* and a longitude; when they do not, the request fails with 500 before get_weather
\* and without a follow-up submission.
C8_OneToolRoundTripParsedArgs ==
    /\ Len(WeatherCalls) <= 1
    /\ Len(CompletionCalls) <= 2
    /\ (Served /\ buddy_first.kind = "tool" /\ buddy_first.args.ok)
          => /\ buddy_calls[1].kind = "completion" /\ buddy_calls[1].tools
             /\ Len(buddy_calls) = 3
             /\ buddy_calls[2] = WeatherCall(buddy_first.args.latitude, buddy_first.args.longitude)
             /\ buddy_calls[3].kind = "completion" /\ ~buddy_calls[3].tools
             /\ buddy_calls[3].messages = buddy_calls[1].messages + 2
             /\ buddy_messages[Len(buddy_messages)].role = "tool"
             /\ buddy_messages[Len(buddy_messages)].content \in {DecimalText(18), DecimalText(25)}
    /\ (Served /\ buddy_first.kind = "tool" /\ ~buddy_first.args.ok)
          => (buddy_response.status = 500 /\ Len(buddy_calls) = 1)
    /\ (Served /\ buddy_first.kind = "text")
          => (Len(buddy_calls) = 1 /\ buddy_calls[1].kind = "completion")

\* The first answer requested the tool and the follow-up answer requested it again:
\* the request was answered 200 after one round trip.
C8_Witness ==
    /\ buddy_response.status = 200
    /\ buddy_first.kind = "tool" /\ buddy_first.args.ok
    /\ buddy_response.response.none
    /\ Len(buddy_calls) = 3

(***************************************************************************)
(* Knowledge-base search claims.                                           *)
(***************************************************************************)
\* text.split("\n"): the pieces between the newlines, in order
Lines(text) ==
    LET breaks == {i \in 1 .. Len(text) : text[i] = "\n"}
        bounds == breaks \cup {0, Len(text) + 1}
    IN  [n \in 1 .. (Cardinality(breaks) + 1) |->
            LET from == CHOOSE i \in bounds : Cardinality({b \in bounds : b < i}) = n - 1
                to   == CHOOSE i \in bounds : Cardinality({b \in bounds : b < i}) = n
            IN  SubSeq(text, from + 1, to - 1)]

LowerTokens(text) == {Lower(Split(text)[k]) : k \in 1 .. Len(Split(text))}

\* The entry and the message have a whitespace-delimited token in common, case aside.
SharesToken(doc, message) == LowerTokens(doc) \cap LowerTokens(message) # {}

\* A token of the message occurs inside the entry, case aside.
TokenOccursIn(doc, message) ==
    \E t \in LowerTokens(message) :
        \E i \in 1 .. Len(doc) :
            /\ i + Len(t) - 1 <= Len(doc)
            /\ \A k \in 1 .. Len(t) : LowerChar(doc[i + k - 1]) = t[k]

\* C10 as stated: the result is the entries that share a token with the message, in
\* the knowledge base's order, joined by newlines, and the marker exactly when no
\* entry shares a token with the message.
C10_EntriesSharingAToken ==
    busca.done =>
        LET shared == SelectSeq(base_conhecimento, LAMBDA doc : SharesToken(doc, busca.input))
        IN  /\ (busca.result = NenhumaInformacao) <=> (shared = <<>>)
            /\ shared # <<>> => Lines(busca.result) = shared

\* C10 as amended: the result is the entries in which a token of the message occurs
\* as a substring (case aside), in the knowledge base's order, joined by newlines,
\* and the marker exactly when no token occurs in any entry.
C10_EntriesContainingAToken ==
    busca.done =>
        LET found == SelectSeq(base_conhecimento, LAMBDA doc : TokenOccursIn(doc, busca.input))
        IN  /\ (busca.result = NenhumaInformacao) <=> (found = <<>>)
            /\ found # <<>> => Lines(busca.result) = found

\* The search has answered three entries for a message none of them shares a token
\* with: its token occurs inside their words.
C10_Witness ==
    /\ busca.done
    /\ busca.result # NenhumaInformacao
    /\ Len(Lines(busca.result)) = 3
    /\ \A k \in 1 .. Len(base_conhecimento) : ~SharesToken(base_conhecimento[k], busca.input)

(***************************************************************************)
(* Concurrency claims.                                                     *)
(***************************************************************************)
\* The handlers that have executed product_id_counter += 1 and not yet answered.
PastIncrement == {s \in Slots : handlers[s].pc \in {"s165", "s168", "s170"}}

\* Two answers carry the same identifier, two entries of the list do, or an
\* increment of the counter is lost.
Collision ==
    \/ \E i, j \in 1 .. Len(responses) : i # j /\ responses[i] = responses[j]
    \/ \E i, j \in 1 .. Len(products_db) : i # j /\ products_db[i].id = products_db[j].id
    \/ product_id_counter # Seeded(1).counter + Len(responses) + Cardinality(PastIncrement)

TwoInFlight == Cardinality(InFlight) >= 2

\* C9 as stated, over the runs of the event loop: two create requests in flight
\* together interleave their read-modify-write of the counter, and a duplicate
\* identifier or a lost increment follows.
C9_ConcurrentCreatesCollide == TwoInFlight ~> Collision

\* C9 as amended: create_product has no suspension point, so the event loop runs
\* each request's read-modify-write to its end; concurrent create requests never
\* receive the same identifier and no increment is lost, and while one coroutine
\* is between its read and its return no other one runs.
C9_CreatesAreSerialized ==
    /\ ~Collision
    /\ \A s, t \in Slots :
          (s # t /\ handlers[s].pc \in {"s163", "s165", "s168", "s170"})
             => handlers[t].pc \in {"idle", "s161"}

\* One request has read the counter and not yet incremented it, while another
\* request is in flight.
C9_Witness ==
    \E s, t \in Slots :
        /\ s # t
        /\ handlers[s].pc = "s163"
        /\ handlers[t].pc = "s161"
        /\ Len(responses) >= 1

====
